---- MODULE Spec2Model ----
(***************************************************************************)
(* Orbit: the relevance scorer (src/src/engine/score.js), the signal       *)
(* tracker and ranker (engine/rank.js), the context provider               *)
(* (src/src/engine/types.js), the storage service                          *)
(* (src/src/services/storage.js) and the store that ties them together     *)
(* (src/src/store/orbitStore.js).                                          *)
(*                                                                         *)
(* Numbers.  Timestamps are whole hours since an epoch.  Sub-scores are    *)
(* fixed point with ONE = 1.0; the weights are percentages, so a score is  *)
(* fixed point with SCORE_ONE = 100 * ONE = 1.0.  Every division rounds    *)
(* down.  Math.exp and Math.log10 are tabulated to three decimals.         *)
(***************************************************************************)
EXTENDS Integers, Sequences, FiniteSets, TLC

VARIABLES
    item,       \* engine machine: the item under the engine's operations
    ctx,        \* engine machine: the context snapshot of the current pass
    rel,        \* engine machine: computeRelevance(item, ctx) of the last pass
    lastOp,     \* engine machine: the engine operation applied last
    state,      \* store: the state object {items, visibleItems, context, isLoading}
    persisted,  \* storage: the collection stored under STORAGE_KEYS.ITEMS
    placeKey,   \* localStorage: the value under STORAGE_KEYS.CONTEXT
    legacyKey,  \* localStorage: the value under 'orbit_place'
    clock,      \* the wall clock, in hours
    calls,      \* store: the asynchronous store calls in flight, by slot
    nextId,     \* the id the next created item gets (crypto.randomUUID)
    lastReminder, \* OrbitSurface: lastReminderRef.current, in hours (0: none)
    expandedId, \* OrbitSurface: the item the last reminder expanded
    inputValue, \* OrbitInput: the text in the input box
    addedTitles, \* OrbitInput: the titles handed to onAdd, with their path
    recomputeInterval, \* store: the id of the periodic timer, or NULL
    timers,     \* the browser's active interval timers, by id
    nextTimer,  \* the id the next setInterval returns
    timerRuns,  \* how many times a timer has called recompute
    listeners,  \* store: the subscribed listeners
    notifications, \* how many times a listener has been called
    worker,     \* service worker: "installing" or "activated"
    cache,      \* service worker: the cache 'orbit-v2', by pathname
    events,     \* service worker: the fetch events received, in order
    budget      \* operations still to be issued (bounds the exploration)

engineVars == <<item, ctx, rel, lastOp>>
storeVars == <<state, persisted, placeKey, legacyKey, clock, calls, nextId>>
surfaceVars == <<lastReminder, expandedId>>
inputVars == <<inputValue, addedTitles>>
timerVars == <<recomputeInterval, timers, nextTimer, timerRuns>>
listenerVars == <<listeners, notifications>>
workerVars == <<worker, cache, events>>
sideVars == <<surfaceVars, inputVars, timerVars, listenerVars, workerVars>>
vars == <<item, ctx, rel, lastOp, state, persisted, placeKey, legacyKey, clock,
          calls, nextId, lastReminder, expandedId, inputValue, addedTitles,
          recomputeInterval, timers, nextTimer, timerRuns, listeners,
          notifications, worker, cache, events, budget>>

----------------------------------------------------------------------------
(* Constants of src/config/constants.ts (src/unnamed/part_014)             *)

ONE == 1000
SCORE_ONE == 100 * ONE
NULL == -1
\* what localStorage.getItem returns for a key that is not stored
NONE == "(null)"

W_TIME == 20
W_PLACE == 15
W_DEVICE == 10
W_RECENCY == 25
W_FREQUENCY == 15
W_PINNED == 10
W_NOVELTY == 5

MAX_VISIBLE == 5
DECAY_DAYS == 7
QUIET_HOURS_DEFAULT == 4

Min(a, b) == IF a < b THEN a ELSE b
Max(a, b) == IF a > b THEN a ELSE b

----------------------------------------------------------------------------
(* Histograms: JavaScript objects used as maps from a bucket key to a      *)
(* count; a missing key reads as 0 (h[k] || 0).                            *)

EmptyHist == [k \in {} |-> 0]

Get(h, k) == IF k \in DOMAIN h THEN h[k] ELSE 0

RECURSIVE SumOver(_, _)
SumOver(h, keys) ==
    IF keys = {} THEN 0
    ELSE LET k == CHOOSE x \in keys : TRUE
         IN  h[k] + SumOver(h, keys \ {k})

\* Object.values(h).reduce((a, b) => a + b, 0)
Total(h) == SumOver(h, DOMAIN h)

\* h[k] = (h[k] || 0) + 1
Bump(h, k) == [x \in (DOMAIN h) \cup {k} |-> Get(h, x) + (IF x = k THEN 1 ELSE 0)]

----------------------------------------------------------------------------
(* Math.exp(-ageDays / DECAY_DAYS) and Math.log10, to three decimals       *)

ExpDayTable ==
    <<1000, 866, 751, 651, 564, 489, 424, 367, 318, 276, 239, 207, 180, 156,
      135, 117, 101, 88, 76, 66, 57, 49, 43, 37, 32, 28, 24, 21, 18, 15, 13,
      11, 10, 8, 7, 6, 5, 5, 4, 3, 3, 2, 2, 2, 1, 1, 1, 1, 1>>

ExpHourTable ==
    <<1000, 994, 988, 982, 976, 970, 964, 959, 953, 947, 942, 936, 931, 925,
      920, 914, 909, 903, 898, 893, 887, 882, 877, 872>>

\* floor(ONE * exp(-ageHours / (24 * DECAY_DAYS))) for ageHours >= 0
ExpDecay(ageHours) ==
    LET d == ageHours \div 24
        r == ageHours % 24
    IN  IF d >= Len(ExpDayTable) THEN 0
        ELSE (ExpDayTable[d + 1] * ExpHourTable[r + 1]) \div ONE

\* exp of a positive argument (a last interaction later than now)
ExpGrowth(aheadHours) ==
    LET e == ExpDecay(aheadHours)
    IN  (ONE * ONE) \div Max(e, 1)

\* floor(ONE * log10(m) / 2) for 1 <= m <= 99
HalfLog10Table ==
    <<0, 150, 238, 301, 349, 389, 422, 451, 477, 500, 520, 539, 556, 573, 588,
      602, 615, 627, 639, 650, 661, 671, 680, 690, 698, 707, 715, 723, 731,
      738, 745, 752, 759, 765, 772, 778, 784, 789, 795, 801, 806, 811, 816,
      821, 826, 831, 836, 840, 845, 849, 853, 858, 862, 866, 870, 874, 877,
      881, 885, 889, 892, 896, 899, 903, 906, 909, 913, 916, 919, 922, 925,
      928, 931, 934, 937, 940, 943, 946, 948, 951, 954, 956, 959, 962, 964,
      967, 969, 972, 974, 977, 979, 981, 984, 986, 988, 991, 993, 995, 997>>

\* log10(m) / 2, m >= 1; values past 1.0 are only ever used under Math.min(1, .)
HalfLog10(m) == IF m > Len(HalfLog10Table) THEN ONE ELSE HalfLog10Table[m]

----------------------------------------------------------------------------
(* src/src/engine/types.js                                                 *)

\* createItem, with the id and the clock reading passed in
createItem(id, now) ==
    [ id |-> id,
      createdAt |-> now,
      lastSeenAt |-> NULL,
      seenCount |-> 0,
      openedCount |-> 0,
      dismissedCount |-> 0,
      hourHistogram |-> EmptyHist,
      dayHistogram |-> EmptyHist,
      placeHistogram |-> EmptyHist,
      deviceHistogram |-> EmptyHist,
      ignoredStreak |-> 0,
      isPinned |-> FALSE,
      pinUntil |-> NULL,
      quietUntil |-> NULL,
      score |-> SCORE_ONE \div 2,
      reasons |-> <<>> ]

\* the device class getCurrentContext derives from the user agent's tokens
detectDevice(ua) ==
    IF ua \cap {"mobile", "android", "iphone", "ipad"} # {}
    THEN (IF ua \cap {"ipad", "tablet"} # {} THEN "tablet" ELSE "mobile")
    ELSE "desktop"

\* getCurrentContext: clock reading `now`, user agent `ua`, and the value
\* stored under STORAGE_KEYS.CONTEXT (NULL when the key is absent)
getCurrentContext(now, ua, stored) ==
    [ now |-> now,
      hour |-> now % 24,
      day |-> (now \div 24) % 7,
      device |-> detectDevice(ua),
      place |-> IF stored \in {NONE, ""} THEN "unknown" ELSE stored ]

----------------------------------------------------------------------------
(* src/src/engine/score.js                                                 *)

computeTimeAffinity(it, c) ==
    LET h == c.hour
        hPrev == (h - 1 + 24) % 24
        hNext == (h + 1) % 24
        countH == Get(it.hourHistogram, h)
        countPrev == Get(it.hourHistogram, hPrev)
        countNext == Get(it.hourHistogram, hNext)
        totalHours == Total(it.hourHistogram)
        hourProb == IF totalHours > 0 THEN (countH * ONE) \div totalHours ELSE 0
        neighborProb ==
            IF totalHours > 0
            THEN ((countPrev + countNext) * ONE) \div totalHours ELSE 0
        hourAffinity == Min(ONE, hourProb + neighborProb \div 2)
        dayCount == Get(it.dayHistogram, c.day)
        totalDays == Total(it.dayHistogram)
        dayAffinity == IF totalDays > 0 THEN (dayCount * ONE) \div totalDays ELSE 0
    IN  (hourAffinity * 7 + dayAffinity * 3) \div 10

\* the "unknown" shortcut left out
computePlaceAffinityNoShortcut(it, c) ==
    LET placeCount == Get(it.placeHistogram, c.place)
        total == Total(it.placeHistogram)
    IN  IF total > 0 THEN (placeCount * ONE) \div total ELSE ONE \div 2

\* no history scores 0
computePlaceAffinityZeroDefault(it, c) ==
    IF c.place = "unknown" THEN (8 * ONE) \div 10
    ELSE LET placeCount == Get(it.placeHistogram, c.place)
             total == Total(it.placeHistogram)
         IN  IF total > 0 THEN (placeCount * ONE) \div total ELSE 0

\* the neutral 0.5 given to a place without weight instead of to no history
computePlaceAffinityNeutralMiss(it, c) ==
    IF c.place = "unknown" THEN (8 * ONE) \div 10
    ELSE LET placeCount == Get(it.placeHistogram, c.place)
             total == Total(it.placeHistogram)
         IN  IF total > 0
             THEN (IF placeCount > 0 THEN (placeCount * ONE) \div total ELSE ONE \div 2)
             ELSE 0

computePlaceAffinity(it, c) ==
    IF c.place = "unknown" THEN (8 * ONE) \div 10
    ELSE LET placeCount == Get(it.placeHistogram, c.place)
             total == Total(it.placeHistogram)
         IN  IF total > 0 THEN (placeCount * ONE) \div total ELSE ONE \div 2

computeDeviceAffinity(it, c) ==
    LET deviceCount == Get(it.deviceHistogram, c.device)
        total == Total(it.deviceHistogram)
    IN  IF total > 0 THEN (deviceCount * ONE) \div total ELSE 0

computeRecencyBoost(it, c) ==
    IF it.lastSeenAt = NULL THEN 0
    ELSE LET ageHours == c.now - it.lastSeenAt
         IN  IF ageHours >= 0 THEN ExpDecay(ageHours) ELSE ExpGrowth(0 - ageHours)

computeFrequencyBoost(it) ==
    LET interactions == it.seenCount + it.openedCount * 2
    IN  Min(ONE, HalfLog10(interactions + 1))

\* a boost that fades to nothing within a day of the first
computeNoveltyBoostFadesInADay(it, c) ==
    LET ageHours == c.now - it.createdAt
    IN  IF ageHours < 24 THEN ONE
        ELSE IF ageHours < 48 THEN ONE - ((ageHours - 24) * ONE) \div 24
        ELSE 0

computeNoveltyBoost(it, c) ==
    LET ageHours == c.now - it.createdAt
    IN  IF ageHours < 24 THEN ONE
        ELSE IF ageHours < 72 THEN ONE - ((ageHours - 24) * ONE) \div 48
        ELSE 0

\* age decay without its cap
computeDecayUncapped(it, c) ==
    LET streakDecay == Min(ONE \div 2, (it.ignoredStreak * ONE) \div 10)
    IN  IF it.lastSeenAt = NULL
        THEN ((c.now - it.createdAt) * ONE) \div (24 * 30)
        ELSE streakDecay

computeDecay(it, c) ==
    LET streakDecay == Min(ONE \div 2, (it.ignoredStreak * ONE) \div 10)
    IN  IF it.lastSeenAt = NULL
        THEN LET ageHours == c.now - it.createdAt
             IN  Min((8 * ONE) \div 10, (ageHours * ONE) \div (24 * 30))
        ELSE streakDecay

\* a pin that never lapses
pinValidIgnoresExpiry(it, c) == it.isPinned

\* the pin boost of computeRelevance (score.js 52-60)
pinValid(it, c) ==
    it.isPinned /\ (it.pinUntil = NULL \/ it.pinUntil > c.now)

\* the quiet test of computeRelevance (score.js 73-76)
quietActive(it, c) ==
    it.quietUntil # NULL /\ c.now < it.quietUntil

\* the suppression left out
quietSuppressNothing(score) == score

\* score *= 0.1
quietSuppress(score) == score \div 10

\* the upper clamp left out
normalizeFloorOnly(score) == Max(0, score)

normalize(score) == Max(0, Min(SCORE_ONE, score))

\* the sum of the five learned signals (score.js 23-50)
signalSum(it, c) ==
      computeTimeAffinity(it, c) * W_TIME
    + computePlaceAffinity(it, c) * W_PLACE
    + computeDeviceAffinity(it, c) * W_DEVICE
    + computeRecencyBoost(it, c) * W_RECENCY
    + computeFrequencyBoost(it) * W_FREQUENCY

\* "=" for "+=" on the pin weight
addPinAssigns(score, it, c) ==
    IF pinValid(it, c) THEN W_PINNED * ONE ELSE score

\* if (pinValid) score += WEIGHTS.PINNED
addPin(score, it, c) ==
    IF pinValid(it, c) THEN score + W_PINNED * ONE ELSE score

\* the weighted sum before decay, quiet and clamping (score.js 21-65)
weightedSum(it, c) ==
    addPin(signalSum(it, c), it, c) + computeNoveltyBoost(it, c) * W_NOVELTY

\* score *= (1 - decay)
applyDecay(score, decay) == (score * (ONE - decay)) \div ONE

\* the reasons list, in push order
relevanceReasons(it, c) ==
    LET when(b, r) == IF b THEN <<r>> ELSE <<>>
    IN     when(computeTimeAffinity(it, c) * 2 > ONE /\ Total(it.hourHistogram) > 10,
                <<"matches your usual time">>)
        \o when(computePlaceAffinity(it, c) * 2 > ONE /\ Total(it.placeHistogram) > 5,
                <<"often seen at", c.place>>)
        \o when(computeDeviceAffinity(it, c) * 2 > ONE /\ Total(it.deviceHistogram) > 5,
                <<"fits context", c.device>>)
        \o when(computeRecencyBoost(it, c) * 10 > 7 * ONE, <<"recently on your mind">>)
        \o when(computeFrequencyBoost(it) * 2 > ONE, <<"frequently accessed">>)
        \o when(pinValid(it, c), <<"pinned">>)
        \o when(computeNoveltyBoost(it, c) * 2 > ONE, <<"newly added">>)
        \o when(computeDecay(it, c) * 10 > 3 * ONE, <<"fading from focus">>)
        \o when(quietActive(it, c), <<"quieted">>)

computeRelevance(it, c) ==
    LET decayed == applyDecay(weightedSum(it, c), computeDecay(it, c))
        quieted == IF quietActive(it, c) THEN quietSuppress(decayed) ELSE decayed
    IN  [ score |-> normalize(quieted), reasons |-> relevanceReasons(it, c) ]

----------------------------------------------------------------------------
(* engine/rank.js: the signal tracker and the ranker                       *)

Kinds == {"seen", "opened", "dismissed"}

\* a recordInteraction that resets the streak whatever the kind
recordInteractionResetsStreak(it, kind, c) ==
    [ it EXCEPT
        !.lastSeenAt = c.now,
        !.seenCount = IF kind = "seen" THEN @ + 1 ELSE @,
        !.openedCount = IF kind = "opened" THEN @ + 1 ELSE @,
        !.dismissedCount = IF kind = "dismissed" THEN @ + 1 ELSE @,
        !.hourHistogram = Bump(@, c.hour),
        !.dayHistogram = Bump(@, c.day),
        !.placeHistogram = Bump(@, c.place),
        !.deviceHistogram = Bump(@, c.device),
        !.ignoredStreak = 0 ]

recordInteraction(it, kind, c) ==
    [ it EXCEPT
        !.lastSeenAt = c.now,
        !.seenCount = IF kind = "seen" THEN @ + 1 ELSE @,
        !.openedCount = IF kind = "opened" THEN @ + 1 ELSE @,
        !.dismissedCount = IF kind = "dismissed" THEN @ + 1 ELSE @,
        !.hourHistogram = Bump(@, c.hour),
        !.dayHistogram = Bump(@, c.day),
        !.placeHistogram = Bump(@, c.place),
        !.deviceHistogram = Bump(@, c.device),
        !.ignoredStreak = IF kind = "opened" THEN 0 ELSE @ ]

pinItem(it) == [ it EXCEPT !.isPinned = TRUE, !.pinUntil = NULL ]

unpinItem(it) == [ it EXCEPT !.isPinned = FALSE, !.pinUntil = NULL ]

quietItem(it, hours, c) == [ it EXCEPT !.quietUntil = c.now + hours ]

\* a comparison that puts a ahead of every b it scores no lower than
rankedBeforeOrEqual(a, b) == a.score >= b.score

\* a ranks strictly ahead of b: score descending, then createdAt ascending
rankedBefore(a, b) ==
    a.score > b.score \/ (a.score = b.score /\ a.createdAt < b.createdAt)

\* the stable insertion of x into the sorted sequence s
RECURSIVE insertRanked(_, _)
insertRanked(x, s) ==
    IF s = <<>> THEN <<x>>
    ELSE IF rankedBefore(x, Head(s)) THEN <<x>> \o s
    ELSE <<Head(s)>> \o insertRanked(x, Tail(s))

RECURSIVE sortRanked(_)
sortRanked(s) ==
    IF s = <<>> THEN <<>>
    ELSE insertRanked(s[Len(s)], sortRanked(SubSeq(s, 1, Len(s) - 1)))

\* an item with its freshly computed score and reasons attached
scored(it, c) ==
    LET r == computeRelevance(it, c)
    IN  [ it EXCEPT !.score = r.score, !.reasons = r.reasons ]

RECURSIVE selectSeq(_, _, _)
selectSeq(s, c, wantQuiet) ==
    IF s = <<>> THEN <<>>
    ELSE (IF quietActive(Head(s), c) = wantQuiet THEN <<Head(s)>> ELSE <<>>)
         \o selectSeq(Tail(s), c, wantQuiet)

rankAll(its, c) == sortRanked([i \in 1..Len(its) |-> scored(its[i], c)])

\* a visible subset that is the top of the ranking, quieted or not
rankVisibleByScore(all, c) == SubSeq(all, 1, Min(MAX_VISIBLE, Len(all)))

\* the visible subset: non-quieted items first, quieted ones fill the cap
rankVisible(all, c) ==
    LET ordered == selectSeq(all, c, FALSE) \o selectSeq(all, c, TRUE)
    IN  SubSeq(ordered, 1, Min(MAX_VISIBLE, Len(ordered)))

rankItems(its, c) ==
    LET all == rankAll(its, c)
    IN  [ all |-> all, visible |-> rankVisible(all, c) ]

----------------------------------------------------------------------------
(* The domains the machines draw from                                      *)

Places == {"home", "work", "unknown"}
TickHours == {4, 24}

\* the clock reading the machines start at: day 33, nine o'clock
StartNow == 33 * 24 + 9

\* a histogram holding n interactions in bucket k
Hist(k, n) == [x \in {k} |-> n]
----------------------------------------------------------------------------
(* src/src/services/storage.js: the read-modify-write of one collection    *)

\* items.findIndex((i) => i.id === id), 0 for -1
RECURSIVE findIndexFrom(_, _, _)
findIndexFrom(its, id, i) ==
    IF i > Len(its) THEN 0
    ELSE IF its[i].id = id THEN i
    ELSE findIndexFrom(its, id, i + 1)

findIndex(its, id) == findIndexFrom(its, id, 1)

\* items.filter((i) => i.id !== id)
RECURSIVE withoutId(_, _)
withoutId(its, id) ==
    IF its = <<>> THEN <<>>
    ELSE (IF Head(its).id = id THEN <<>> ELSE <<Head(its)>>) \o withoutId(Tail(its), id)

\* addItem: items.push(item)
storageAdded(read, it) == Append(read, it)

\* updateItem: items[index] = updated, when the id is found
storageUpdated(read, id, updated) ==
    LET index == findIndex(read, id)
    IN  IF index # 0 THEN [read EXCEPT ![index] = updated] ELSE read

\* removeItem
storageRemoved(read, id) == withoutId(read, id)

----------------------------------------------------------------------------
(* src/src/store/orbitStore.js                                             *)

NoContext == [now |-> NULL, hour |-> NULL, day |-> NULL, device |-> "", place |-> ""]

\* let state = { items: [], visibleItems: [], context: null, isLoading: true }
InitialState ==
    [items |-> <<>>, visibleItems |-> <<>>, context |-> NoContext, isLoading |-> TRUE]

\* the user agent of the browser the store runs in
StoreUserAgent == {}

\* getCurrentContext() as the store calls it
currentContext(now, stored) == getCurrentContext(now, StoreUserAgent, stored)

\* state.items.find((i) => i.id === id) looked up in the visible copies
findItemVisible(st, id) ==
    LET index == findIndex(st.visibleItems, id)
    IN  IF index # 0 THEN <<st.visibleItems[index]>> ELSE <<>>

\* a find that falls back on the first item
findItemOrFirst(st, id) ==
    LET index == findIndex(st.items, id)
    IN  IF index # 0 THEN <<st.items[index]>>
        ELSE IF st.items # <<>> THEN <<st.items[1]>> ELSE <<>>

\* state.items.find((i) => i.id === id): <<item>>, or <<>> when there is none
findItem(st, id) ==
    LET index == findIndex(st.items, id)
    IN  IF index # 0 THEN <<st.items[index]>> ELSE <<>>

\* a map that puts the updated item in every place
installedEverywhere(st, id, updated) ==
    [st EXCEPT !.items = [i \in 1..Len(st.items) |-> updated]]

\* state.items = state.items.map((i) => (i.id === id ? updated : i))
installed(st, id, updated) ==
    [st EXCEPT !.items = [i \in 1..Len(st.items) |->
                            IF st.items[i].id = id THEN updated ELSE st.items[i]]]

\* recordInteraction(item, 'seen', context)
markOpenedAsSeen(it, c) == recordInteraction(it, "seen", c)

\* markOpened: recordInteraction(item, 'opened', context)
markOpenedUpdate(it, c) == recordInteraction(it, "opened", c)

\* quiet passing no hours on to quietItem
updatedByQuietNow(kind, it, c) ==
    CASE kind = "markSeen" -> recordInteraction(it, "seen", c)
      [] kind = "markOpened" -> markOpenedUpdate(it, c)
      [] kind = "quiet" -> quietItem(it, 0, c)
      [] kind = "pin" -> pinItem(it)
      [] kind = "unpin" -> unpinItem(it)

\* what each updating operation makes of the item it found
updatedBy(kind, it, c) ==
    CASE kind = "markSeen" -> recordInteraction(it, "seen", c)
      [] kind = "markOpened" -> markOpenedUpdate(it, c)
      [] kind = "quiet" -> quietItem(it, QUIET_HOURS_DEFAULT, c)
      [] kind = "pin" -> pinItem(it)
      [] kind = "unpin" -> unpinItem(it)

\* initialize: the state built from the loaded collection
initializedState(loaded, c) ==
    LET r == rankItems(loaded, c)
    IN  [items |-> r.all, visibleItems |-> r.visible, context |-> c, isLoading |-> FALSE]

\* recompute
recomputedState(st, c) ==
    LET r == rankItems(st.items, c)
    IN  [st EXCEPT !.items = r.all, !.visibleItems = r.visible, !.context = c]

\* addToOrbit, after the storage write
addedState(st, tracked, c) ==
    LET r == rankItems(Append(st.items, tracked), c)
    IN  [st EXCEPT !.items = r.all, !.visibleItems = r.visible]

\* state.items ranked instead of the filtered array
removedStateRanksAll(st, id, c) ==
    LET r == rankItems(st.items, c)
    IN  [st EXCEPT !.items = withoutId(st.items, id), !.visibleItems = r.visible]

\* remove, after the storage write
removedState(st, id, c) ==
    LET r == rankItems(withoutId(st.items, id), c)
    IN  [st EXCEPT !.items = r.all, !.visibleItems = r.visible]

\* migratePlaceKey: the two keys afterwards, <<orbit_context, orbit_place>>
\* a migration that does not look at the new key
migratePlaceKeyOverwrites(newValue, oldValue) ==
    IF oldValue \notin {NONE, ""} THEN <<oldValue, NONE>>
    ELSE <<newValue, oldValue>>

migratePlaceKey(newValue, oldValue) ==
    IF oldValue \notin {NONE, ""} /\ newValue \in {NONE, ""} THEN <<oldValue, NONE>>
    ELSE <<newValue, oldValue>>

----------------------------------------------------------------------------
(* The store machine.  An asynchronous store call occupies a slot from its *)
(* call to its return and takes one step per stretch between two awaits.   *)

\* bounds of the exploration
MaxOps == 3
MaxInflight == 2

Slots == 1..MaxInflight
UpdateKinds == {"markSeen", "markOpened", "quiet", "pin", "unpin"}

Idle == [kind |-> "idle", pc |-> "", id |-> 0, arg |-> <<>>, c |-> NoContext, read |-> <<>>]

IsFree(s) == calls[s].kind = "idle"
FirstFree(s) == IsFree(s) /\ \A t \in Slots : t < s => ~IsFree(t)

\* the ids handed out so far
KnownIds == 1..(nextId - 1)

\* an item as storage holds it
storedItem(id, createdAt, lastSeenAt, seen, opened, hour, place, streak) ==
    [ createItem(id, createdAt) EXCEPT
        !.lastSeenAt = lastSeenAt,
        !.seenCount = seen,
        !.openedCount = opened,
        !.hourHistogram = IF seen + opened > 0 THEN Hist(hour, seen + opened) ELSE EmptyHist,
        !.dayHistogram = IF seen + opened > 0 THEN Hist(4, seen + opened) ELSE EmptyHist,
        !.placeHistogram = IF seen + opened > 0 THEN Hist(place, seen + opened) ELSE EmptyHist,
        !.deviceHistogram = IF seen + opened > 0 THEN Hist("desktop", seen + opened) ELSE EmptyHist,
        !.ignoredStreak = streak ]

\* what an earlier session left in storage: nothing, two items, or six
SmallSeed ==
    << storedItem(1, StartNow - 24 * 20, StartNow - 24, 8, 4, 9, "work", 0),
       storedItem(2, StartNow - 48, StartNow - 24, 1, 0, 9, "home", 4) >>

WideSeed ==
    SmallSeed \o
    << storedItem(3, StartNow - 24 * 9, StartNow - 72, 2, 1, 13, "home", 1),
       storedItem(4, StartNow - 24 * 10, StartNow - 72, 2, 1, 13, "home", 1),
       storedItem(5, StartNow - 24 * 40, NULL, 0, 0, 0, "home", 0),
       [ storedItem(6, StartNow - 24 * 5, StartNow - 24 * 4, 1, 0, 20, "work", 2)
           EXCEPT !.isPinned = TRUE ] >>

PersistedSeeds == { <<>>, SmallSeed, WideSeed }

EngineAtRest ==
    /\ item = createItem(0, 0)
    /\ ctx = NoContext
    /\ rel = [score |-> 0, reasons |-> <<>>]
    /\ lastOp = "none"

\* no reminder has been given
SurfaceAtRest ==
    /\ lastReminder = 0
    /\ expandedId = NULL

\* the input box is empty and nothing has been submitted
InputAtRest ==
    /\ inputValue = <<>>
    /\ addedTitles = <<>>

\* let recomputeInterval = null, and no timer is set
TimerAtRest ==
    /\ recomputeInterval = NULL
    /\ timers = {}
    /\ nextTimer = 1
    /\ timerRuns = 0

\* const listeners = new Set()
ListenersAtRest ==
    /\ listeners = {}
    /\ notifications = 0

\* the pathnames of the requests the service worker is sent
Pathnames ==
    { <<"/">>,
      <<"/", "b", "u", "n", "d", "l", "e", ".", "j", "s">>,
      <<"/", "l", "o", "g", "o", ".", "p", "n", "g">>,
      <<"/", "m", "a", "n", "i", "f", "e", "s", "t", ".", "j", "s", "o", "n">> }

\* what caches.match resolves to when nothing matches
NoResponse == [status |-> 0, body |-> NONE]

\* the worker is registered and not yet installed; its cache is empty
WorkerAtRest ==
    /\ worker = "installing"
    /\ cache = [p \in Pathnames |-> NoResponse]
    /\ events = <<>>

SideAtRest ==
    SurfaceAtRest /\ InputAtRest /\ TimerAtRest /\ ListenersAtRest /\ WorkerAtRest

StoreAtRest ==
    /\ state = InitialState
    /\ persisted = <<>>
    /\ placeKey = NONE
    /\ legacyKey = NONE
    /\ clock = StartNow
    /\ calls = [s \in Slots |-> Idle]
    /\ nextId = 1

StoreInitWith(seeds) ==
    /\ EngineAtRest
    /\ SideAtRest
    /\ state = InitialState
    /\ persisted \in seeds
    /\ placeKey = NONE
    /\ legacyKey \in {NONE, "home"}
    /\ clock = StartNow
    /\ calls = [s \in Slots |-> Idle]
    /\ nextId = Len(persisted) + 1
    /\ budget = MaxOps

Init == StoreInitWith(PersistedSeeds)

Issue == budget > 0 /\ budget' = budget - 1

\* notify(): every listener is called with the state
Notify ==
    /\ notifications' = notifications + Cardinality(listeners)
    /\ UNCHANGED listeners

\* the variables outside the store that no store operation touches
unnotified == <<surfaceVars, inputVars, timerVars, workerVars>>

\* time passes
Tick ==
    \E d \in TickHours :
        /\ Issue
        /\ clock' = clock + d
        /\ UNCHANGED <<engineVars, sideVars, state, persisted, placeKey, legacyKey, calls, nextId>>

\* initialize(), up to await migrateToEncrypted()
InitializeStart(s) ==
    /\ Issue /\ FirstFree(s)
    /\ state' = [state EXCEPT !.isLoading = TRUE]
    /\ placeKey' = migratePlaceKey(placeKey, legacyKey)[1]
    /\ legacyKey' = migratePlaceKey(placeKey, legacyKey)[2]
    /\ calls' = [calls EXCEPT ![s] = [Idle EXCEPT !.kind = "initialize", !.pc = "read"]]
    /\ Notify
    /\ UNCHANGED <<engineVars, unnotified, persisted, clock, nextId>>

\* the storage read of getAllItems, addItem, updateItem or removeItem
StorageRead(s) ==
    /\ calls[s].pc = "read"
    /\ calls' = [calls EXCEPT ![s].read = persisted,
                              ![s].pc = IF calls[s].kind = "initialize"
                                        THEN "finish" ELSE "write"]
    /\ UNCHANGED <<engineVars, sideVars, state, persisted, placeKey, legacyKey, clock, nextId, budget>>

\* initialize(), from the loaded collection to notify()
InitializeFinish(s) ==
    /\ calls[s].kind = "initialize" /\ calls[s].pc = "finish"
    /\ state' = initializedState(calls[s].read, currentContext(clock, placeKey))
    /\ calls' = [calls EXCEPT ![s] = Idle]
    /\ Notify
    /\ UNCHANGED <<engineVars, unnotified, persisted, placeKey, legacyKey, clock, nextId, budget>>

\* recompute(), called by the timer or by the user interface
Recompute ==
    /\ Issue
    /\ state' = recomputedState(state, currentContext(clock, placeKey))
    /\ Notify
    /\ UNCHANGED <<engineVars, unnotified, persisted, placeKey, legacyKey, clock, calls, nextId>>

\* a setPlace that writes the key of earlier versions
SetPlaceToLegacyKey(p) ==
    /\ Issue
    /\ legacyKey' = p
    /\ state' = recomputedState(state, currentContext(clock, placeKey))
    /\ Notify
    /\ UNCHANGED <<engineVars, unnotified, persisted, placeKey, clock, calls, nextId>>

\* setPlace(place)
SetPlaceTo(p) ==
    /\ Issue
    /\ placeKey' = p
    /\ state' = recomputedState(state, currentContext(clock, p))
    /\ Notify
    /\ UNCHANGED <<engineVars, unnotified, persisted, legacyKey, clock, calls, nextId>>

SetPlace == \E p \in Places : SetPlaceTo(p)

\* addToOrbit(title), up to the storage read
AddStart(s) ==
    /\ Issue /\ FirstFree(s)
    /\ LET c == currentContext(clock, placeKey)
           tracked == recordInteraction(createItem(nextId, clock), "seen", c)
       IN  calls' = [calls EXCEPT ![s] =
                       [Idle EXCEPT !.kind = "addToOrbit", !.pc = "read",
                                    !.id = nextId, !.arg = tracked, !.c = c]]
    /\ nextId' = nextId + 1
    /\ UNCHANGED <<engineVars, sideVars, state, persisted, placeKey, legacyKey, clock>>

\* markSeen, markOpened, quiet, pin, unpin: up to the storage read
UpdateStartOf(s, kind, id) ==
    /\ Issue /\ FirstFree(s)
    /\ LET found == findItem(state, id)
           c == currentContext(clock, placeKey)
       IN  IF found = <<>>
           THEN UNCHANGED <<state, calls>>
           ELSE LET updated == updatedBy(kind, found[1], c)
                IN  /\ state' = installed(state, id, updated)
                    /\ calls' = [calls EXCEPT ![s] =
                                   [Idle EXCEPT !.kind = kind, !.pc = "read",
                                                !.id = id, !.arg = updated]]
    /\ UNCHANGED <<engineVars, sideVars, persisted, placeKey, legacyKey, clock, nextId>>

UpdateStart(s) == \E kind \in UpdateKinds, id \in KnownIds : UpdateStartOf(s, kind, id)

\* remove(id), up to the storage read
RemoveStart(s) ==
    \E id \in KnownIds :
        /\ Issue /\ FirstFree(s)
        /\ calls' = [calls EXCEPT ![s] =
                       [Idle EXCEPT !.kind = "remove", !.pc = "read", !.id = id]]
        /\ UNCHANGED <<engineVars, sideVars, state, persisted, placeKey, legacyKey, clock, nextId>>

\* the storage write of addItem, updateItem or removeItem
StorageWrite(s) ==
    /\ calls[s].pc = "write"
    /\ persisted' =
         CASE calls[s].kind = "addToOrbit" -> storageAdded(calls[s].read, calls[s].arg)
           [] calls[s].kind = "remove" -> storageRemoved(calls[s].read, calls[s].id)
           [] OTHER ->
                IF findIndex(calls[s].read, calls[s].id) # 0
                THEN storageUpdated(calls[s].read, calls[s].id, calls[s].arg)
                ELSE persisted
    /\ calls' = [calls EXCEPT ![s].pc = "finish"]
    /\ UNCHANGED <<engineVars, sideVars, state, placeKey, legacyKey, clock, nextId, budget>>

\* addToOrbit, from the storage write to notify()
AddFinish(s) ==
    /\ calls[s].kind = "addToOrbit" /\ calls[s].pc = "finish"
    /\ state' = addedState(state, calls[s].arg, calls[s].c)
    /\ calls' = [calls EXCEPT ![s] = Idle]
    /\ Notify
    /\ UNCHANGED <<engineVars, unnotified, persisted, placeKey, legacyKey, clock, nextId, budget>>

\* markSeen, markOpened, quiet, pin, unpin: await recompute()
UpdateFinish(s) ==
    /\ calls[s].kind \in UpdateKinds /\ calls[s].pc = "finish"
    /\ state' = recomputedState(state, currentContext(clock, placeKey))
    /\ calls' = [calls EXCEPT ![s] = Idle]
    /\ Notify
    /\ UNCHANGED <<engineVars, unnotified, persisted, placeKey, legacyKey, clock, nextId, budget>>

\* remove, from the storage write to notify()
RemoveFinish(s) ==
    /\ calls[s].kind = "remove" /\ calls[s].pc = "finish"
    /\ state' = removedState(state, calls[s].id, currentContext(clock, placeKey))
    /\ calls' = [calls EXCEPT ![s] = Idle]
    /\ Notify
    /\ UNCHANGED <<engineVars, unnotified, persisted, placeKey, legacyKey, clock, nextId, budget>>

Next ==
    \/ Tick
    \/ Recompute
    \/ SetPlace
    \/ \E s \in Slots :
        \/ InitializeStart(s)
        \/ StorageRead(s)
        \/ InitializeFinish(s)
        \/ AddStart(s)
        \/ UpdateStart(s)
        \/ RemoveStart(s)
        \/ StorageWrite(s)
        \/ AddFinish(s)
        \/ UpdateFinish(s)
        \/ RemoveFinish(s)

Spec == Init /\ [][Next]_vars

\* the store started on an empty or a two-item collection
SpecSmall == StoreInitWith({<<>>, SmallSeed}) /\ [][Next]_vars

----------------------------------------------------------------------------
(* The engine machine: one item driven through the engine's operations,    *)
(* re-scored after each of them under the context of that pass.            *)

UserAgents == {{}, {"iphone", "mobile"}}
QuietHours == {QUIET_HOURS_DEFAULT, 24}

\* bounds of the exploration
MaxEngineOps == 3



\* items as an earlier session left them in storage
StoredItems ==
    LET fresh == createItem(1, StartNow)
    IN  { fresh,
          \* created a month ago and never seen
          [ fresh EXCEPT !.createdAt = 0 ],
          \* created two days ago, seen once yesterday at home, since ignored
          [ fresh EXCEPT !.createdAt = StartNow - 48,
                         !.lastSeenAt = StartNow - 24,
                         !.seenCount = 1,
                         !.hourHistogram = Hist(9, 1),
                         !.dayHistogram = Hist(4, 1),
                         !.placeHistogram = Hist("home", 1),
                         !.deviceHistogram = Hist("desktop", 1),
                         !.ignoredStreak = 4 ],
          \* created ten days ago, opened once at work, passed over seven times
          [ fresh EXCEPT !.createdAt = StartNow - 24 * 10,
                         !.lastSeenAt = StartNow - 24 * 9,
                         !.openedCount = 1,
                         !.hourHistogram = Hist(9, 1),
                         !.dayHistogram = Hist(2, 1),
                         !.placeHistogram = Hist("work", 1),
                         !.deviceHistogram = Hist("desktop", 1),
                         !.ignoredStreak = 7 ],
          \* a habit: twelve interactions at nine o'clock at work
          [ fresh EXCEPT !.createdAt = StartNow - 24 * 20,
                         !.lastSeenAt = StartNow - 24,
                         !.seenCount = 8,
                         !.openedCount = 4,
                         !.hourHistogram = Hist(9, 12),
                         !.dayHistogram = [x \in {4, 5} |-> 6],
                         !.placeHistogram = Hist("work", 12),
                         !.deviceHistogram = Hist("desktop", 12) ],
          \* ten interactions, all at nine o'clock on the same weekday
          [ fresh EXCEPT !.createdAt = StartNow - 24 * 30,
                         !.lastSeenAt = StartNow - 24 * 7,
                         !.seenCount = 7,
                         !.openedCount = 3,
                         !.hourHistogram = Hist(9, 10),
                         !.dayHistogram = Hist((StartNow \div 24) % 7, 10),
                         !.placeHistogram = Hist("home", 10),
                         !.deviceHistogram = Hist("desktop", 10) ],
          \* pinned until four hours from now
          [ fresh EXCEPT !.createdAt = StartNow - 24 * 5,
                         !.lastSeenAt = StartNow - 24,
                         !.seenCount = 2,
                         !.openedCount = 1,
                         !.hourHistogram = Hist(9, 3),
                         !.dayHistogram = Hist(4, 3),
                         !.placeHistogram = Hist("work", 3),
                         !.deviceHistogram = Hist("desktop", 3),
                         !.isPinned = TRUE,
                         !.pinUntil = StartNow + 4 ] }

EngineInitWith(items) ==
    /\ StoreAtRest
    /\ SideAtRest
    /\ item \in items
    /\ \E ua \in UserAgents, p \in Places :
          ctx = getCurrentContext(StartNow, ua, p)
    /\ rel = computeRelevance(item, ctx)
    /\ lastOp = "load"
    /\ budget = MaxEngineOps

EngineInit == EngineInitWith(StoredItems)

\* the engine operation op turns the item into it2 under the context c2
EngineStep(op, it2, c2) ==
    /\ item' = it2
    /\ ctx' = c2
    /\ rel' = computeRelevance(it2, c2)
    /\ lastOp' = op
    /\ UNCHANGED <<storeVars, sideVars>>

\* time passes and the next pass is given a fresh context
EAdvance ==
    \E d \in TickHours :
        /\ budget > 0
        /\ EngineStep("advance", item,
                      [ctx EXCEPT !.now = @ + d,
                                  !.hour = (ctx.now + d) % 24,
                                  !.day = ((ctx.now + d) \div 24) % 7])
        /\ budget' = budget - 1

\* the user moves: the next context reports another place
EMove ==
    \E p \in Places \ {ctx.place} :
        /\ budget > 0
        /\ EngineStep("move", item, [ctx EXCEPT !.place = p])
        /\ budget' = budget - 1

ERecord ==
    \E kind \in Kinds :
        /\ budget > 0
        /\ EngineStep(kind, recordInteraction(item, kind, ctx), ctx)
        /\ budget' = budget - 1

EPin ==
    /\ budget > 0
    /\ EngineStep("pin", pinItem(item), ctx)
    /\ budget' = budget - 1

EUnpin ==
    /\ budget > 0
    /\ item.isPinned
    /\ EngineStep("unpin", unpinItem(item), ctx)
    /\ budget' = budget - 1

EQuiet ==
    \E hours \in QuietHours :
        /\ budget > 0
        /\ EngineStep("quiet", quietItem(item, hours, ctx), ctx)
        /\ budget' = budget - 1

EngineNext == EAdvance \/ EMove \/ ERecord \/ EPin \/ EUnpin \/ EQuiet

SpecScore == EngineInit /\ [][EngineNext]_vars

\* items whose stored fields no engine operation produces: a last interaction
\* stamped ten days after the clock reading, and a negative histogram weight
UnvalidatedItems ==
    LET fresh == createItem(1, StartNow)
    IN  { [ fresh EXCEPT !.createdAt = StartNow - 24 * 20,
                         !.lastSeenAt = StartNow + 24 * 10,
                         !.seenCount = 8,
                         !.openedCount = 4,
                         !.hourHistogram = Hist(9, 12),
                         !.dayHistogram = [x \in {4, 5} |-> 6],
                         !.placeHistogram = Hist("work", 12),
                         !.deviceHistogram = Hist("desktop", 12) ],
          [ fresh EXCEPT !.placeHistogram = [x \in {"home", "work"} |->
                                               IF x = "home" THEN 0 - 3 ELSE 4] ] }

\* the engine machine started from any stored item, validated or not
SpecAnyItem == EngineInitWith(StoredItems \cup UnvalidatedItems) /\ [][EngineNext]_vars

----------------------------------------------------------------------------
(* Properties of the relevance scorer                                      *)

\* the item has no interaction history
NoHistory(it) ==
    /\ it.lastSeenAt = NULL
    /\ it.seenCount = 0 /\ it.openedCount = 0 /\ it.dismissedCount = 0
    /\ it.hourHistogram = EmptyHist /\ it.dayHistogram = EmptyHist
    /\ it.placeHistogram = EmptyHist /\ it.deviceHistogram = EmptyHist

\* the score before quiet suppression and clamping
decayedSum(it, c) == applyDecay(weightedSum(it, c), computeDecay(it, c))

\* C1: the score computeRelevance returns lies in [0,1], whatever the item's
\* histograms, counters, streak, pin and quiet fields hold.
C1_ScoreInUnitInterval ==
    /\ rel = computeRelevance(item, ctx)
    /\ rel.score >= 0
    /\ rel.score <= SCORE_ONE

\* the weighted sum left [0,1] on one side and the clamp brought it back
C1_Witness ==
    /\ rel = computeRelevance(item, ctx)
    /\ \/ decayedSum(item, ctx) > SCORE_ONE /\ rel.score = SCORE_ONE
       \/ decayedSum(item, ctx) < 0 /\ rel.score = 0

\* C2 as stated: an item without history has time, place and device
\* sub-scores 0 in every context.
C2_AsStated ==
    NoHistory(item) =>
        /\ computeTimeAffinity(item, ctx) = 0
        /\ computePlaceAffinity(item, ctx) = 0
        /\ computeDeviceAffinity(item, ctx) = 0

\* C2 amended: an item without history has time and device sub-scores 0 and
\* place sub-score 0.8 at an unknown place, 0.5 at a known one; unpinned and
\* not quiet-suppressed, its score is
\* (0.15 * place + 0.05 * novelty) * (1 - never-seen age decay).
C2_NoHistoryScore ==
    NoHistory(item) =>
        LET ageHours == ctx.now - item.createdAt
            place == IF ctx.place = "unknown" THEN (8 * ONE) \div 10 ELSE ONE \div 2
            novelty == IF ageHours < 24 THEN ONE
                       ELSE IF ageHours < 72 THEN ONE - ((ageHours - 24) * ONE) \div 48
                       ELSE 0
            decay == Min((8 * ONE) \div 10, (ageHours * ONE) \div 720)
        IN  /\ computeTimeAffinity(item, ctx) = 0
            /\ computeDeviceAffinity(item, ctx) = 0
            /\ computePlaceAffinity(item, ctx) = place
            /\ (~pinValid(item, ctx) /\ ~quietActive(item, ctx)) =>
                  rel.score = ((place * W_PLACE + novelty * W_NOVELTY) * (ONE - decay)) \div ONE

\* an unpinned item without history, two days old, scored at a known place
C2_Witness ==
    /\ NoHistory(item) /\ ~item.isPinned /\ ~quietActive(item, ctx)
    /\ ctx.place = "home"
    /\ ctx.now - item.createdAt = 48
    /\ lastOp = "advance"
    /\ rel.score > 0

\* C3: at the place "unknown" the place sub-score is 0.8 for every item.
C3_UnknownPlaceIsNeutralHigh ==
    ctx.place = "unknown" => computePlaceAffinity(item, ctx) * 10 = 8 * ONE

\* scored at "unknown", once without history and once with a place history
\* that holds "unknown" itself
C3_Witness ==
    /\ ctx.place = "unknown"
    /\ rel = computeRelevance(item, ctx)
    /\ Get(item.placeHistogram, "unknown") > 0
    /\ Get(item.placeHistogram, "work") > 0

\* C4 as stated: at a known place, a history without weight for the place
\* scores 0.5, no history at all scores 0, anything else scores the share.
C4_AsStated ==
    ctx.place # "unknown" =>
        LET total == Total(item.placeHistogram)
            count == Get(item.placeHistogram, ctx.place)
            ps == computePlaceAffinity(item, ctx)
        IN  /\ (total > 0 /\ count = 0) => ps * 2 = ONE
            /\ total = 0 => ps = 0
            /\ (total > 0 /\ count > 0) =>
                  (ps * total <= count * ONE /\ count * ONE < (ps + 1) * total)

\* C4 amended: at a known place, no history at all scores 0.5; any history
\* scores the share placeHistogram[place] / total, which is 0 when the
\* history holds no weight for the place.
C4_PlaceShare ==
    ctx.place # "unknown" =>
        LET total == Total(item.placeHistogram)
            count == Get(item.placeHistogram, ctx.place)
            ps == computePlaceAffinity(item, ctx)
        IN  /\ total = 0 => ps * 2 = ONE
            /\ total > 0 =>
                  (ps * total <= count * ONE /\ count * ONE < (ps + 1) * total)
            /\ (total > 0 /\ count = 0) => ps = 0

\* a history elsewhere and none at the context's place
C4_Witness ==
    /\ ctx.place = "home"
    /\ Total(item.placeHistogram) > 0
    /\ Get(item.placeHistogram, "home") = 0
    /\ lastOp = "move"
    /\ rel = computeRelevance(item, ctx)

\* the item with its quiet period cleared
unquieted(it) == [it EXCEPT !.quietUntil = NULL]

C6_PinNeverLowers ==
    pinValid(item, ctx) =>
        rel.score >= computeRelevance([item EXCEPT !.isPinned = FALSE], ctx).score

\* a pinned item scoring strictly above its unpinned self
C6_Witness ==
    /\ pinValid(item, ctx)
    /\ lastOp = "pin"
    /\ rel.score > computeRelevance([item EXCEPT !.isPinned = FALSE], ctx).score


----------------------------------------------------------------------------
(* Ranking and the visible set in the store                                *)

\* score descending, equal scores by createdAt ascending
sortedByRank(its) ==
    \A i, j \in 1..Len(its) : i < j => ~rankedBefore(its[j], its[i])

idsOf(its) == {its[i].id : i \in 1..Len(its)}

\* C7: ranking the ranked items again under the same context changes
\* nothing: the order, the scores and the visible subset stay as they are,
\* equal scores stand in createdAt order, and so a second recompute under
\* an unchanged context leaves state.items and state.visibleItems as the
\* first one left them.
C7_RerankIdempotent ==
    LET c == currentContext(clock, placeKey)
        first == recomputedState(state, c)
        second == recomputedState(first, c)
    IN  /\ second.items = first.items
        /\ second.visibleItems = first.visibleItems
        /\ sortedByRank(first.items)
        /\ Len(first.items) = Len(state.items)
        /\ idsOf(first.items) = idsOf(state.items)

\* two items of equal score stand in createdAt order in state.items although
\* storage holds them the other way round
C7_Witness ==
    \E i, j \in 1..Len(state.items) :
        /\ i < j
        /\ state.items[i].score = state.items[j].score
        /\ state.items[i].createdAt < state.items[j].createdAt
        /\ findIndex(persisted, state.items[i].id) > findIndex(persisted, state.items[j].id)
        /\ findIndex(persisted, state.items[j].id) # 0

\* the items of state.items that are not in the visible set
hiddenItems(st) ==
    {st.items[i] : i \in {k \in 1..Len(st.items) : st.items[k].id \notin idsOf(st.visibleItems)}}

visibleOutscoresHidden(st) ==
    \A i \in 1..Len(st.visibleItems) : \A h \in hiddenItems(st) :
        st.visibleItems[i].score >= h.score

\* the item was quiet-suppressed by the ranking that gave it its score
markedQuieted(it) == \E k \in 1..Len(it.reasons) : it.reasons[k] = <<"quieted">>

----------------------------------------------------------------------------
(* Interaction tracking in the store                                       *)

\* histogram h2 is h1 with bucket k one higher and every other bucket as it was
bumpedAt(h1, h2, k) ==
    /\ Get(h2, k) = Get(h1, k) + 1
    /\ \A x \in (DOMAIN h1 \cup DOMAIN h2) \ {k} : Get(h2, x) = Get(h1, x)

\* new is old with one "opened" interaction recorded under context c
openedOnce(old, new, c) ==
    /\ new.openedCount = old.openedCount + 1
    /\ new.ignoredStreak = 0
    /\ new.lastSeenAt = c.now
    /\ bumpedAt(old.hourHistogram, new.hourHistogram, c.hour)
    /\ bumpedAt(old.dayHistogram, new.dayHistogram, c.day)
    /\ bumpedAt(old.placeHistogram, new.placeHistogram, c.place)
    /\ bumpedAt(old.deviceHistogram, new.deviceHistogram, c.device)
    /\ new.seenCount = old.seenCount
    /\ new.dismissedCount = old.dismissedCount
    /\ new.createdAt = old.createdAt
    /\ new.id = old.id
    /\ new.isPinned = old.isPinned
    /\ new.pinUntil = old.pinUntil
    /\ new.quietUntil = old.quietUntil

\* the step in which slot s begins a markOpened that finds its item
markOpenedBegins(s) == calls[s].kind = "idle" /\ calls'[s].kind = "markOpened"

\* the step in which slot s performs the storage write of a markOpened
markOpenedWrites(s) ==
    calls[s].kind = "markOpened" /\ calls[s].pc = "write" /\ calls'[s].pc = "finish"

\* C9: the item markOpened puts into state.items is the item it found with
\* one "opened" interaction recorded under the current context: openedCount
\* one higher, ignoredStreak 0, lastSeenAt the context's now, the four
\* context buckets one higher (from 0 when absent), and seenCount,
\* dismissedCount, the other buckets, createdAt, id and the pin and quiet
\* fields as they were; the storage write puts this same item in the place of
\* the stored item of that id.
C9_MarkOpenedRecordsOpened ==
    [][ \A s \in Slots :
          /\ markOpenedBegins(s) =>
               LET id == calls'[s].id
                   old == findItem(state, id)[1]
                   new == findItem(state', id)[1]
               IN  /\ findItem(state, id) # <<>>
                   /\ findItem(state', id) # <<>>
                   /\ openedOnce(old, new, currentContext(clock, placeKey))
                   /\ calls'[s].arg = new
                   /\ new = recordInteraction(old, "opened", currentContext(clock, placeKey))
          /\ markOpenedWrites(s) =>
               LET index == findIndex(calls[s].read, calls[s].id)
               IN  index # 0 =>
                     /\ Len(persisted') = Len(calls[s].read)
                     /\ persisted'[index] = calls[s].arg
                     /\ \A k \in 1..Len(persisted') :
                           k # index => persisted'[k] = calls[s].read[k]
      ]_vars

\* a markOpened has written its item: storage and state.items both hold it,
\* with a bucket raised from an earlier weight and one raised from nothing
C9_Witness ==
    \E s \in Slots :
        /\ calls[s].kind = "markOpened" /\ calls[s].pc = "finish"
        /\ \E k \in 1..Len(persisted) : persisted[k] = calls[s].arg
        /\ findItem(state, calls[s].id) = <<calls[s].arg>>
        /\ calls[s].arg.openedCount > 0
        /\ calls[s].arg.ignoredStreak = 0
        /\ Get(calls[s].arg.hourHistogram, 9) > 1
        /\ Get(calls[s].arg.placeHistogram, "unknown") = 1

\* every weight of the item's four histograms is at least 0
noNegativeWeight(it) ==
    /\ \A k \in DOMAIN it.hourHistogram : it.hourHistogram[k] >= 0
    /\ \A k \in DOMAIN it.dayHistogram : it.dayHistogram[k] >= 0
    /\ \A k \in DOMAIN it.placeHistogram : it.placeHistogram[k] >= 0
    /\ \A k \in DOMAIN it.deviceHistogram : it.deviceHistogram[k] >= 0

\* a step of initialize or remove, the two operations that replace or drop items
replacesOrDrops ==
    \E s \in Slots :
        /\ calls'[s] # calls[s]
        /\ \/ calls[s].kind \in {"initialize", "remove"}
           \/ calls'[s].kind \in {"initialize", "remove"}

\* C10: a step of addToOrbit, markSeen, markOpened, quiet, pin, unpin or
\* recompute keeps every item of state.items under its id with its createdAt,
\* lowers none of seenCount, openedCount and dismissedCount, and leaves no
\* histogram bucket with a negative weight.
C10_CountersAndIdentity ==
    [][ replacesOrDrops \/
        /\ Len(state'.items) >= Len(state.items)
        /\ \A i \in 1..Len(state.items) :
             \E j \in 1..Len(state'.items) :
                 /\ state'.items[j].id = state.items[i].id
                 /\ state'.items[j].createdAt = state.items[i].createdAt
                 /\ state'.items[j].seenCount >= state.items[i].seenCount
                 /\ state'.items[j].openedCount >= state.items[i].openedCount
                 /\ state'.items[j].dismissedCount >= state.items[i].dismissedCount
        /\ \A j \in 1..Len(state'.items) : noNegativeWeight(state'.items[j])
      ]_vars

\* an item added in this session, then opened and pinned
C10_Witness ==
    \E i \in 1..Len(state.items) :
        /\ state.items[i].createdAt = StartNow
        /\ state.items[i].seenCount = 1
        /\ state.items[i].openedCount = 1
        /\ state.items[i].isPinned
        /\ \A s \in Slots : calls[s].kind = "idle"


----------------------------------------------------------------------------
(* The collection in memory and in storage                                 *)

\* C11: as claimed, no step takes an item out of state.items unless a
\* remove called with its id is under way.
C11_AsStated ==
    [][ \A i \in 1..Len(state.items) :
            \/ state.items[i].id \in idsOf(state'.items)
            \/ \E s \in Slots : calls[s].kind = "remove" /\ calls[s].id = state.items[i].id
      ]_vars

\* every store call issued has returned
atRest == \A s \in Slots : calls[s].kind = "idle"

\* an item without what ranking attaches to it
signalsOf(it) == [it EXCEPT !.score = 0, !.reasons = <<>>]

signalsIn(its) == {signalsOf(its[i]) : i \in 1..Len(its)}

\* no two storage read-modify-writes overlap: at most one call has read the
\* collection and not yet written it back
writesSerialized == Cardinality({s \in Slots : calls[s].pc = "write"}) <= 1

\* with every call returned, storage holds the items of state.items with
\* the signals they have there
persistedMatchesState ==
    (atRest /\ ~state.isLoading) => signalsIn(persisted) = signalsIn(state.items)

\* C12: as claimed, the storage read-modify-writes of the store's mutations
\* never overlap, and once every issued operation has returned the persisted
\* collection holds exactly the items of state.items with their latest
\* signals.
C12_AsStated == writesSerialized /\ persistedMatchesState

\* two adds on an empty collection have returned and so has an initialize
\* after them: the second add wrote the collection it had read before the
\* first one wrote, and the reload left one item in state.items
C11_Witness ==
    /\ atRest /\ ~state.isLoading
    /\ nextId = 3
    /\ Len(state.items) = 1
    /\ Len(persisted) = 1

\* every call has returned, storage and state.items hold the same ids, and
\* storage holds an item without an update state.items has
C12_Witness ==
    /\ atRest /\ ~state.isLoading
    /\ idsOf(persisted) = idsOf(state.items)
    /\ Len(persisted) = Len(state.items)
    /\ signalsIn(persisted) # signalsIn(state.items)


----------------------------------------------------------------------------
(* The place of the context                                                *)

\* C13: after setPlace(p) the context getCurrentContext() builds, and the one
\* the store keeps, has place p; while nothing is stored under the context
\* key, getCurrentContext() reports the place "unknown".
C13_SetPlaceThenContext ==
    [][ /\ \A p \in Places :
              SetPlaceTo(p) =>
                  /\ currentContext(clock', placeKey').place = p
                  /\ state'.context.place = p
        /\ placeKey = NONE => currentContext(clock, placeKey).place = "unknown"
        /\ placeKey' = NONE => currentContext(clock', placeKey').place = "unknown"
      ]_vars

\* setPlace("work") has run on a loaded collection
C13_Witness ==
    /\ placeKey = "work"
    /\ state.context.place = "work"
    /\ Len(state.items) > 0
    /\ atRest

\* the step in which an initialize begins: it runs migratePlaceKey
initializeBegins == \E s \in Slots : calls[s].kind = "idle" /\ calls'[s].kind = "initialize"

\* C14: when initialize begins with a value under 'orbit_place' and none
\* under 'orbit_context', the value moves to 'orbit_context' and 'orbit_place'
\* is removed; in every other case both keys stay as they were; and a second
\* migration on the keys it leaves changes neither.
C14_PlaceKeyMigration ==
    [][ initializeBegins =>
          /\ (legacyKey # NONE /\ placeKey = NONE)
                => (placeKey' = legacyKey /\ legacyKey' = NONE)
          /\ ~(legacyKey # NONE /\ placeKey = NONE)
                => (placeKey' = placeKey /\ legacyKey' = legacyKey)
          /\ migratePlaceKey(placeKey', legacyKey') = <<placeKey', legacyKey'>>
      ]_vars

\* the one operation issued is an initialize, and the legacy value has moved
C14_Witness ==
    /\ budget = MaxOps - 1
    /\ \E s \in Slots : calls[s].kind = "initialize"
    /\ placeKey = "home"
    /\ legacyKey = NONE


----------------------------------------------------------------------------
(* Quiet and pin                                                           *)

\* a step of an initialize, which replaces state.items by what storage held
initializeStep ==
    \E s \in Slots :
        /\ calls'[s] # calls[s]
        /\ (calls[s].kind = "initialize" \/ calls'[s].kind = "initialize")

\* the step in which slot s begins an operation of one of the kinds
begins(s, kinds) == calls[s].kind = "idle" /\ calls'[s].kind \in kinds

C16_PinFrame ==
    [][ \A s \in Slots :
          /\ begins(s, {"pin", "unpin"}) =>
               /\ Len(state'.items) = Len(state.items)
               /\ \A i \in 1..Len(state.items) :
                    IF state.items[i].id = calls'[s].id
                    THEN /\ state'.items[i] =
                              [findItem(state, calls'[s].id)[1] EXCEPT
                                  !.isPinned = state'.items[i].isPinned,
                                  !.pinUntil = state'.items[i].pinUntil]
                         /\ state'.items[i].isPinned = (calls'[s].kind = "pin")
                         /\ state'.items[i] = calls'[s].arg
                    ELSE state'.items[i] = state.items[i]
          /\ (calls[s].kind \in {"pin", "unpin"} /\ calls[s].pc = "write"
                /\ calls'[s].pc = "finish") =>
               LET index == findIndex(calls[s].read, calls[s].id)
               IN  index # 0 =>
                     /\ Len(persisted') = Len(calls[s].read)
                     /\ \A k \in 1..Len(persisted') :
                           persisted'[k] = IF k = index THEN calls[s].arg
                                           ELSE calls[s].read[k]
          /\ (calls[s].kind \in {"pin", "unpin"} /\ calls[s].pc = "finish"
                /\ calls'[s].kind = "idle") =>
               /\ Len(state'.items) = Len(state.items)
               /\ signalsIn(state'.items) = signalsIn(state.items)
      ]_vars

\* a pin of the first stored item has returned; the item has the signals it
\* was stored with, and other items are not pinned
C16_Witness ==
    /\ atRest
    /\ \E i, j \in 1..Len(state.items) :
           /\ state.items[i].id = 1
           /\ state.items[i].isPinned
           /\ state.items[i].seenCount = 8
           /\ state.items[i].openedCount = 4
           /\ ~state.items[j].isPinned
    /\ \E k \in 1..Len(persisted) : persisted[k].id = 1 /\ persisted[k].isPinned


----------------------------------------------------------------------------
(* Novelty and decay                                                       *)

\* how far ahead of the context the novelty of an item is compared
MaxAgeAhead == 80

\* C17: the novelty sub-score of an item created at or before now is 1 below
\* 24 hours of age, 1 - (ageHours - 24)/48 from 24 to below 72 hours (0.5 at
\* 48 hours) and 0 from 72 hours on; it lies in [0,1] and no later context
\* gives a higher one.
C17_NoveltyFade ==
    LET ageHours == ctx.now - item.createdAt
        novelty == computeNoveltyBoost(item, ctx)
    IN  ageHours >= 0 =>
          /\ ageHours < 24 => novelty = ONE
          /\ (24 <= ageHours /\ ageHours < 72) =>
                /\ 48 * (ONE - novelty) <= (ageHours - 24) * ONE
                /\ (ageHours - 24) * ONE < 48 * (ONE - novelty) + 48
          /\ ageHours = 48 => 2 * novelty = ONE
          /\ ageHours >= 72 => novelty = 0
          /\ 0 <= novelty /\ novelty <= ONE
          /\ \A d \in 0..MaxAgeAhead :
                computeNoveltyBoost(item, [ctx EXCEPT !.now = ctx.now + d]) <= novelty

\* time has passed and the item is 48 hours old: its novelty is one half and
\* the score holds 0.05 * 0.5 of it
C17_Witness ==
    /\ lastOp = "advance"
    /\ ctx.now - item.createdAt = 48
    /\ 2 * computeNoveltyBoost(item, ctx) = ONE
    /\ weightedSum(item, ctx) - addPin(signalSum(item, ctx), item, ctx)
          = (ONE \div 2) * W_NOVELTY

\* C18: the decay is min(0.5, 0.1 * ignoredStreak) for an item that has been
\* seen and min(0.8, ageDays / 30) for one never seen, and lies in [0, 0.8];
\* the score is the weighted sum times (1 - decay), before quiet suppression
\* takes its nine tenths.
C18_DecayFactor ==
    LET decay == computeDecay(item, ctx)
        ageHours == ctx.now - item.createdAt
        raw == weightedSum(item, ctx)
        final == (raw * (ONE - decay)) \div ONE
    IN  /\ item.lastSeenAt # NULL =>
              decay = (IF item.ignoredStreak >= 5 THEN 5 ELSE item.ignoredStreak) * (ONE \div 10)
        /\ item.lastSeenAt = NULL =>
              /\ ageHours >= 24 * 24 => 10 * decay = 8 * ONE
              /\ ageHours < 24 * 24 =>
                    /\ 24 * 30 * decay <= ageHours * ONE
                    /\ ageHours * ONE < 24 * 30 * (decay + 1)
        /\ 0 <= decay /\ 10 * decay <= 8 * ONE
        /\ rel.score = IF quietActive(item, ctx) THEN final \div 10 ELSE final

\* an item seen once and ignored four times since is scored at six tenths of
\* its weighted sum after time has passed
C18_Witness ==
    /\ lastOp = "advance"
    /\ item.lastSeenAt # NULL
    /\ item.ignoredStreak = 4
    /\ 10 * computeDecay(item, ctx) = 4 * ONE
    /\ ~quietActive(item, ctx)
    /\ rel.score > 0
    /\ rel.score = (weightedSum(item, ctx) * 6) \div 10


----------------------------------------------------------------------------
(* engine/stateMachine.ts: the lifecycle state, a projection of the item's *)
(* signals and the context.  Where two states' conditions hold together    *)
(* the projection reports quieted before new before decaying.              *)

\* a projection that keeps reporting decaying under an active pin
lifecycleStateIgnoresPin(it, c) ==
    IF quietActive(it, c) THEN "quieted"
    ELSE IF c.now - it.createdAt < 24 THEN "new"
    ELSE IF computeDecay(it, c) * 10 > 3 * ONE THEN "decaying"
    ELSE "active"

lifecycleState(it, c) ==
    IF quietActive(it, c) THEN "quieted"
    ELSE IF c.now - it.createdAt < 24 THEN "new"
    ELSE IF computeDecay(it, c) * 10 > 3 * ONE /\ ~pinValid(it, c) THEN "decaying"
    ELSE "active"

\* the state of the machine's item: archived once it has been removed
stateNow == IF lastOp = "remove" THEN "archived" ELSE lifecycleState(item, ctx)
stateNext == IF lastOp' = "remove" THEN "archived" ELSE lifecycleState(item', ctx')

\* explicit removal: the owner takes the item out of the collection, and the
\* engine is given it no more
ERemove ==
    /\ budget > 0
    /\ lastOp # "remove"
    /\ lastOp' = "remove"
    /\ budget' = budget - 1
    /\ UNCHANGED <<item, ctx, rel, storeVars, sideVars>>

LifecycleNext == (lastOp # "remove" /\ EngineNext) \/ ERemove

SpecLifecycle == EngineInit /\ [][LifecycleNext]_vars

----------------------------------------------------------------------------
(* components/OrbitSurface (src/unnamed/part_005): the reminder for old    *)
(* items, checked by a timer every minute and ten seconds after each       *)
(* change of state.items or state.visibleItems.  Times are in hours.       *)

REMINDER_INTERVAL_HOURS == 3
REMINDER_AGE_HOURS == 4

\* a filter that lets pinned items through
needsAttentionPinnedToo(it, now) == now - it.createdAt >= REMINDER_AGE_HOURS

\* the filter of oldItems
needsAttention(it, now) ==
    /\ ~it.isPinned
    /\ now - it.createdAt >= REMINDER_AGE_HOURS

oldItems(st, now) == SelectSeq(st.items, LAMBDA it : needsAttention(it, now))

\* state.visibleItems.find(vi => oldItems.some(oi => oi.id === vi.id))
visibleOldItem(st, now) ==
    SelectSeq(st.visibleItems, LAMBDA vi : vi.id \in idsOf(oldItems(st, now)))

\* oldItems.sort by createdAt ascending, [0]
oldestItem(its) ==
    its[CHOOSE i \in 1..Len(its) :
            \A j \in 1..Len(its) :
                \/ its[j].createdAt > its[i].createdAt
                \/ its[j].createdAt = its[i].createdAt /\ j >= i]

\* checkForReminders, when it gives a reminder; otherwise it returns and
\* changes nothing.  boostItem, which the second branch calls, is not among
\* the store's operations and has no effect here.
CheckForReminders ==
    /\ clock - lastReminder >= REMINDER_INTERVAL_HOURS
    /\ oldItems(state, clock) # <<>>
    /\ expandedId' = IF visibleOldItem(state, clock) # <<>>
                     THEN visibleOldItem(state, clock)[1].id
                     ELSE oldestItem(oldItems(state, clock)).id
    /\ lastReminder' = clock
    /\ UNCHANGED <<engineVars, storeVars, inputVars, timerVars, listenerVars, workerVars, budget>>

\* an hour or two pass
ShortWait ==
    \E d \in {1, 2} :
        /\ Issue
        /\ clock' = clock + d
        /\ UNCHANGED <<engineVars, sideVars, state, persisted, placeKey, legacyKey, calls, nextId>>

\* five of six stored items are pinned; the sixth, never seen, ranks last
PinnedSeed ==
    [k \in 1..Len(WideSeed) |->
        IF WideSeed[k].id = 5 THEN WideSeed[k]
        ELSE [WideSeed[k] EXCEPT !.isPinned = TRUE]]

\* the surface mounts with the last reminder of an earlier session, if any
ReminderInit ==
    /\ EngineAtRest
    /\ state = InitialState
    /\ persisted \in {SmallSeed, PinnedSeed}
    /\ placeKey = NONE
    /\ legacyKey = NONE
    /\ clock = StartNow
    /\ calls = [s \in Slots |-> Idle]
    /\ nextId = Len(persisted) + 1
    /\ lastReminder \in {0, StartNow - 2}
    /\ expandedId = NULL
    /\ InputAtRest
    /\ TimerAtRest
    /\ ListenersAtRest
    /\ WorkerAtRest
    /\ budget = MaxOps

ReminderNext == Next \/ ShortWait \/ CheckForReminders

SpecReminder == ReminderInit /\ [][ReminderNext]_vars

\* C20: two reminders are never less than REMINDER_INTERVAL_MS (3 hours)
\* apart, and a reminder is given only for an item of state.items that is
\* not pinned and whose age is at least REMINDER_AGE_HOURS (4 hours).
C20_ReminderSpacing ==
    [][ lastReminder' # lastReminder =>
          /\ lastReminder' = clock
          /\ clock - lastReminder >= REMINDER_INTERVAL_HOURS
          /\ \E i \in 1..Len(state.items) :
                /\ state.items[i].id = expandedId'
                /\ ~state.items[i].isPinned
                /\ clock - state.items[i].createdAt >= REMINDER_AGE_HOURS
      ]_vars

\* a reminder exactly three hours after the one before, for the unpinned
\* item, which is not visible: the visible items are all pinned
C20_Witness ==
    /\ lastReminder = StartNow + 1
    /\ expandedId = 5
    /\ Len(state.items) = 6
    /\ 5 \notin idsOf(state.visibleItems)
    /\ \A i \in 1..Len(state.visibleItems) : state.visibleItems[i].isPinned


----------------------------------------------------------------------------
(* components/OrbitInput.js: the two submit paths.  A string is a sequence *)
(* of runs [ch, n]: n copies of a letter "a", a blank " " or a control     *)
(* character "ctl"; neighbouring runs differ in ch.                        *)

MAX_TITLE_LENGTH == 200
MAX_ITEMS == 500

MaxRuns == 2
MaxAdds == 1
RunLengths == {1, 199, 201}
Chars == {"a", " ", "ctl"}
Runs == [ch : Chars, n : RunLengths]

RECURSIVE length(_)
length(str) == IF str = <<>> THEN 0 ELSE str[1].n + length(Tail(str))

\* the strings of at most MaxRuns runs
Strings ==
    UNION { { str \in [1..k -> Runs] :
                \A j \in 1..(k - 1) : str[j].ch # str[j + 1].ch } : k \in 0..MaxRuns }

\* neighbouring runs of one character are one run
RECURSIVE joined(_)
joined(str) ==
    IF Len(str) < 2 THEN str
    ELSE IF str[1].ch = str[2].ch
         THEN joined(<<[ch |-> str[1].ch, n |-> str[1].n + str[2].n]>> \o SubSeq(str, 3, Len(str)))
         ELSE <<str[1]>> \o joined(Tail(str))

\* String.prototype.trim
RECURSIVE trimStart(_)
trimStart(str) ==
    IF str # <<>> /\ str[1].ch = " " THEN trimStart(Tail(str)) ELSE str

RECURSIVE trimEnd(_)
trimEnd(str) ==
    IF str # <<>> /\ str[Len(str)].ch = " "
    THEN trimEnd(SubSeq(str, 1, Len(str) - 1)) ELSE str

trim(str) == trimEnd(trimStart(str))

\* String.prototype.slice(0, k)
RECURSIVE slice(_, _)
slice(str, k) ==
    IF str = <<>> \/ k <= 0 THEN <<>>
    ELSE IF str[1].n <= k THEN <<str[1]>> \o slice(Tail(str), k - str[1].n)
    ELSE <<[ch |-> str[1].ch, n |-> k]>>

\* .replace(/[\x00-\x08\x0B\x0C\x0E-\x1F\x7F]/g, '')
withoutControl(str) == joined(SelectSeq(str, LAMBDA r : r.ch # "ctl"))

\* a sanitizeInput that slices before it trims
sanitizeInputSliceFirst(value) ==
    withoutControl(trim(slice(value, MAX_TITLE_LENGTH + 1)))

sanitizeInput(value) == withoutControl(slice(trim(value), MAX_TITLE_LENGTH))

\* what aiService.parseInput may resolve to as result.title: whatever the
\* model's JSON holds
AiTitles == Strings

\* input onChange
TypeInput ==
    /\ inputValue' \in Strings
    /\ inputValue' # inputValue
    /\ UNCHANGED <<engineVars, storeVars, surfaceVars, timerVars, listenerVars, workerVars, addedTitles, budget>>

\* handleSubmit
HandleSubmit ==
    LET value == sanitizeInput(inputValue)
    IN  /\ value # <<>>
        /\ Len(state.items) < MAX_ITEMS
        /\ Len(addedTitles) < MaxAdds
        /\ addedTitles' = Append(addedTitles, [title |-> value, ai |-> FALSE])
        /\ inputValue' = <<>>
        /\ UNCHANGED <<engineVars, storeVars, surfaceVars, timerVars, listenerVars, workerVars, budget>>

\* handleAiSubmit with an API key set, when parseInput resolves; when it
\* rejects, only a toast is shown
HandleAiSubmit ==
    LET value == sanitizeInput(inputValue)
    IN  /\ value # <<>>
        /\ Len(addedTitles) < MaxAdds
        /\ \E finalTitle \in AiTitles :
              addedTitles' = Append(addedTitles, [title |-> finalTitle, ai |-> TRUE])
        /\ inputValue' = <<>>
        /\ UNCHANGED <<engineVars, storeVars, surfaceVars, timerVars, listenerVars, workerVars, budget>>

InputInit ==
    /\ EngineAtRest
    /\ StoreAtRest
    /\ SurfaceAtRest
    /\ TimerAtRest
    /\ ListenersAtRest
    /\ WorkerAtRest
    /\ inputValue \in Strings
    /\ addedTitles = <<>>
    /\ budget = 0

InputNext == TypeInput \/ HandleSubmit \/ HandleAiSubmit

SpecInput == InputInit /\ [][InputNext]_vars

titleBounded(t) == length(t) > 0 /\ length(t) <= MAX_TITLE_LENGTH

\* C21 as stated: every title handed to onAdd, on the plain path and on the
\* AI-assisted path, is non-empty and at most MAX_TITLE_LENGTH characters
\* long.
C21_AsStated ==
    \A i \in 1..Len(addedTitles) : titleBounded(addedTitles[i].title)

\* C21, the plain path alone: every title handleSubmit hands to onAdd is
\* non-empty, at most MAX_TITLE_LENGTH characters long and free of control
\* characters.
C21_PlainPath ==
    \A i \in 1..Len(addedTitles) :
        ~addedTitles[i].ai =>
            /\ titleBounded(addedTitles[i].title)
            /\ \A j \in 1..Len(addedTitles[i].title) :
                  addedTitles[i].title[j].ch # "ctl"

\* the AI-assisted path has added a title of 201 characters for an input
\* that sanitizeInput would cut to 200
C21_Witness ==
    /\ Len(addedTitles) = 1
    /\ addedTitles[1].ai
    /\ length(addedTitles[1].title) = MAX_TITLE_LENGTH + 1


----------------------------------------------------------------------------
\* C22: recordInteraction resets ignoredStreak to 0 for kind "opened" and
\* leaves it as it was for "seen" and "dismissed", on every item of
\* state.items; so markOpened installs the item with ignoredStreak 0,
\* markSeen installs it with the ignoredStreak it had, and addToOrbit
\* tracks the new item with the 0 createItem gave it.
C22_StreakResetOnOpenedOnly ==
    [][ /\ \A i \in 1..Len(state.items) :
              LET it == state.items[i]
                  c == currentContext(clock, placeKey)
              IN  /\ recordInteraction(it, "opened", c).ignoredStreak = 0
                  /\ recordInteraction(it, "seen", c).ignoredStreak = it.ignoredStreak
                  /\ recordInteraction(it, "dismissed", c).ignoredStreak = it.ignoredStreak
        /\ \A s \in Slots :
              /\ begins(s, {"markOpened"}) =>
                    /\ calls'[s].arg.ignoredStreak = 0
                    /\ findItem(state', calls'[s].id) = <<calls'[s].arg>>
              /\ begins(s, {"markSeen"}) =>
                    /\ calls'[s].arg.ignoredStreak
                          = findItem(state, calls'[s].id)[1].ignoredStreak
                    /\ calls'[s].arg.seenCount
                          = findItem(state, calls'[s].id)[1].seenCount + 1
                    /\ findItem(state', calls'[s].id) = <<calls'[s].arg>>
              /\ begins(s, {"addToOrbit"}) =>
                    /\ calls'[s].arg.ignoredStreak = 0
                    /\ calls'[s].arg.seenCount = 1
      ]_vars

\* markSeen has completed on an item with a streak of 4, which it still has
C22_Witness ==
    /\ atRest
    /\ \E i \in 1..Len(state.items) :
          /\ state.items[i].ignoredStreak = 4
          /\ state.items[i].lastSeenAt = clock
          /\ state.items[i].seenCount = 2
    /\ \E k \in 1..Len(persisted) :
          persisted[k].ignoredStreak = 4 /\ persisted[k].seenCount = 2


----------------------------------------------------------------------------
\* the number of items of its that are not quiet-suppressed under c
notQuieted(its, c) == Len(selectSeq(its, c, FALSE))

\* C23: ranking the store's items under the current context gives a visible
\* set of min(MAX_VISIBLE, number of items) items; it holds a quiet-suppressed
\* item only when fewer than MAX_VISIBLE items are not quiet-suppressed, and
\* then holds every item that is not, the quiet-suppressed ones filling the
\* rest.
C23_QuietedFillOnly ==
    LET c == currentContext(clock, placeKey)
        r == rankItems(state.items, c)
        loud == notQuieted(r.all, c)
    IN  /\ Len(r.visible) = Min(MAX_VISIBLE, Len(state.items))
        /\ notQuieted(r.visible, c) = Min(MAX_VISIBLE, loud)
        /\ (\E i \in 1..Len(r.visible) : quietActive(r.visible[i], c))
              => loud < MAX_VISIBLE

\* of six items one is quiet-suppressed and scores above an item that is not;
\* the visible set is the five that are not
C23_Witness ==
    /\ atRest
    /\ Len(state.items) = 6
    /\ Len(state.visibleItems) = MAX_VISIBLE
    /\ \A i \in 1..Len(state.visibleItems) :
          ~quietActive(state.visibleItems[i], currentContext(clock, placeKey))
    /\ \E i, j \in 1..Len(state.items) :
          /\ quietActive(state.items[i], currentContext(clock, placeKey))
          /\ state.items[i].id \notin idsOf(state.visibleItems)
          /\ state.items[j].id \in idsOf(state.visibleItems)
          /\ state.items[i].score > state.items[j].score


----------------------------------------------------------------------------
(* The reasons of computeRelevance                                         *)

hasReason(r, label) == \E k \in 1..Len(r.reasons) : r.reasons[k][1] = label

\* the place of a reason in the order of evaluation
reasonRank(reason) ==
    CASE reason[1] = "matches your usual time" -> 1
      [] reason[1] = "often seen at" -> 2
      [] reason[1] = "fits context" -> 3
      [] reason[1] = "recently on your mind" -> 4
      [] reason[1] = "frequently accessed" -> 5
      [] reason[1] = "pinned" -> 6
      [] reason[1] = "newly added" -> 7
      [] reason[1] = "fading from focus" -> 8
      [] reason[1] = "quieted" -> 9

\* C24 as stated: the time reason is among the reasons exactly when the time
\* sub-score exceeds 0.5 and the hour histogram holds at least 10 samples.
C24_AsStated ==
    hasReason(rel, "matches your usual time")
        <=> (computeTimeAffinity(item, ctx) * 2 > ONE /\ Total(item.hourHistogram) >= 10)

\* C24, with the threshold of the code: the time reason is among the reasons
\* exactly when the time sub-score exceeds 0.5 and the hour histogram holds
\* more than 10 samples, and the reasons stand in evaluation order, each at
\* most once.
C24_ReasonsInOrder ==
    /\ hasReason(rel, "matches your usual time")
          <=> (computeTimeAffinity(item, ctx) * 2 > ONE /\ Total(item.hourHistogram) > 10)
    /\ \A i, j \in 1..Len(rel.reasons) :
          i < j => reasonRank(rel.reasons[i]) < reasonRank(rel.reasons[j])

\* an item with exactly ten samples, all at the hour and day of the context,
\* is pinned and scored again, without the time reason
C24_Witness ==
    /\ lastOp = "pin"
    /\ hasReason(rel, "pinned")
    /\ Total(item.hourHistogram) = 10
    /\ computeTimeAffinity(item, ctx) = ONE
    /\ ~hasReason(rel, "matches your usual time")
    /\ rel.score > 0


----------------------------------------------------------------------------
\* the item with the pin flag cleared and everything else as it is
unpinned(it) == [it EXCEPT !.isPinned = FALSE]

\* C25: a pinned item whose pinUntil is absent or later than context.now has
\* the pin weight of 0.10 in its weighted sum, on top of what the same item
\* unpinned has, and the reason "pinned"; a pinned item whose pinUntil is
\* context.now or earlier, like an item that is not pinned, has the score of
\* the same item unpinned and no reason "pinned".
C25_PinWhileValid ==
    LET bare == computeRelevance(unpinned(item), ctx)
    IN  IF item.isPinned /\ (item.pinUntil = NULL \/ item.pinUntil > ctx.now)
        THEN /\ weightedSum(item, ctx) = weightedSum(unpinned(item), ctx) + W_PINNED * ONE
             /\ hasReason(rel, "pinned")
             /\ ~hasReason(bare, "pinned")
             /\ rel.score >= bare.score
        ELSE /\ rel.score = bare.score
             /\ rel = bare
             /\ ~hasReason(rel, "pinned")

\* the pin has lapsed at this very hour: the item is still flagged pinned and
\* is scored without the pin weight
C25_Witness ==
    /\ lastOp = "advance"
    /\ item.isPinned
    /\ item.pinUntil = ctx.now
    /\ ~hasReason(rel, "pinned")
    /\ rel.score > 0


----------------------------------------------------------------------------
(* store/orbitStore.js: the periodic recompute                             *)

MaxTimers == 3
MaxTimerRuns == 2

\* a startAutoRecompute without the test of recomputeInterval
StartAutoRecomputeUnguarded ==
    /\ nextTimer <= MaxTimers
    /\ recomputeInterval' = nextTimer
    /\ timers' = timers \cup {nextTimer}
    /\ nextTimer' = nextTimer + 1
    /\ UNCHANGED <<engineVars, storeVars, surfaceVars, inputVars, listenerVars, workerVars, timerRuns, budget>>

\* startAutoRecompute: setInterval(recompute, 60000) unless a timer is set
StartAutoRecompute ==
    /\ nextTimer <= MaxTimers
    /\ IF recomputeInterval # NULL
       THEN UNCHANGED <<recomputeInterval, timers, nextTimer>>
       ELSE /\ recomputeInterval' = nextTimer
            /\ timers' = timers \cup {nextTimer}
            /\ nextTimer' = nextTimer + 1
    /\ UNCHANGED <<engineVars, storeVars, surfaceVars, inputVars, listenerVars, workerVars, timerRuns, budget>>

\* stopAutoRecompute: clearInterval and forget the id
StopAutoRecompute ==
    /\ IF recomputeInterval # NULL
       THEN /\ timers' = timers \ {recomputeInterval}
            /\ recomputeInterval' = NULL
       ELSE UNCHANGED <<recomputeInterval, timers>>
    /\ UNCHANGED <<engineVars, storeVars, surfaceVars, inputVars, listenerVars, workerVars, nextTimer, timerRuns, budget>>

\* an active timer calls recompute
TimerFires ==
    /\ timers # {}
    /\ timerRuns < MaxTimerRuns
    /\ timerRuns' = timerRuns + 1
    /\ state' = recomputedState(state, currentContext(clock, placeKey))
    /\ Notify
    /\ UNCHANGED <<engineVars, surfaceVars, inputVars, workerVars, persisted, placeKey,
                   legacyKey, clock, calls, nextId, recomputeInterval, timers,
                   nextTimer, budget>>

TimerNext ==
    \/ StartAutoRecompute
    \/ StopAutoRecompute
    \/ TimerFires
    \/ Tick
    \/ \E s \in Slots : InitializeStart(s) \/ StorageRead(s) \/ InitializeFinish(s)

SpecTimer == StoreInitWith({SmallSeed, WideSeed}) /\ [][TimerNext]_vars

\* C26: at most one periodic timer is active, and it is the one the store
\* holds; a start while one is held creates none; a stop cancels it and
\* leaves none; and a timer calls recompute only while the store holds one.
C26_OneRecomputeTimer ==
    [][ /\ Cardinality(timers') <= 1
        /\ timers' = IF recomputeInterval' = NULL THEN {} ELSE {recomputeInterval'}
        /\ recomputeInterval # NULL => timers' \subseteq timers
        /\ timerRuns' # timerRuns => (recomputeInterval # NULL /\ recomputeInterval \in timers)
      ]_vars

\* started, stopped and started again: the second timer is the only one, and
\* it has called recompute after time passed
C26_Witness ==
    /\ recomputeInterval = 2
    /\ timers = {2}
    /\ timerRuns > 0
    /\ ~state.isLoading
    /\ state.context.now > StartNow


----------------------------------------------------------------------------
(* The store with a subscribed component                                   *)

\* OrbitSurface has subscribed before it calls initialize
ListeningInit ==
    /\ EngineAtRest
    /\ SurfaceAtRest /\ InputAtRest /\ TimerAtRest /\ WorkerAtRest
    /\ listeners = {"OrbitSurface"}
    /\ notifications = 0
    /\ state = InitialState
    /\ persisted \in {<<>>, SmallSeed}
    /\ placeKey = NONE
    /\ legacyKey = NONE
    /\ clock = StartNow
    /\ calls = [s \in Slots |-> Idle]
    /\ nextId = Len(persisted) + 1
    /\ budget = MaxOps

SpecListening == ListeningInit /\ [][Next]_vars

\* the step in which slot s performs the storage write of an updateItem
updateWrites(s) ==
    calls[s].kind \in UpdateKinds /\ calls[s].pc = "write" /\ calls'[s].pc = "finish"

\* C27: markSeen, markOpened, quiet, pin or unpin called with an id that no
\* item of state.items has leaves the state and the persisted collection as
\* they are, begins no storage call and calls no listener; and the storage
\* write of updateItem leaves the persisted collection as it is when the
\* collection it read holds no item of the id.
C27_UnknownIdIsNoOp ==
    [][ \A s \in Slots :
          /\ \A kind \in UpdateKinds, id \in KnownIds :
                (UpdateStartOf(s, kind, id) /\ id \notin idsOf(state.items)) =>
                    /\ state' = state
                    /\ persisted' = persisted
                    /\ calls' = calls
                    /\ notifications' = notifications
          /\ (updateWrites(s) /\ calls[s].id \notin idsOf(calls[s].read)) =>
                persisted' = persisted
      ]_vars

\* an update asked for before initialize has loaded anything: the two stored
\* items are not in state.items, and nothing but the call has happened
C27_Witness ==
    /\ budget = MaxOps - 1
    /\ atRest
    /\ notifications = 0
    /\ state = InitialState
    /\ persisted = SmallSeed
    /\ clock = StartNow


----------------------------------------------------------------------------
\* the item of this id is gone: no item of state.items, state.visibleItems
\* or the persisted collection has the id, and no addToOrbit or remove for it
\* is under way
gone(id) ==
    /\ id \notin idsOf(state.items)
    /\ id \notin idsOf(state.visibleItems)
    /\ id \notin idsOf(persisted)
    /\ \A s \in Slots : calls[s].id = id => calls[s].kind \notin {"addToOrbit", "remove"}

\* a step of a markSeen, markOpened, quiet, pin or unpin of this id, or a
\* recompute outside any call
stepFor(id) ==
    \/ \E s \in Slots :
          calls[s].id = id /\ calls[s].kind \in UpdateKinds /\ calls'[s] # calls[s]
    \/ calls' = calls /\ state' # state

\* C28 as stated: once an item is gone, with its remove completed, no step
\* of an operation in flight for its id and no recompute brings an item of
\* the id back into state.items, state.visibleItems or the persisted
\* collection.
C28_AsStated ==
    [][ \A id \in KnownIds :
          (gone(id) /\ stepFor(id)) =>
              /\ id \notin idsOf(state'.items)
              /\ id \notin idsOf(state'.visibleItems)
              /\ id \notin idsOf(persisted')
      ]_vars

\* remove(1) and markSeen(1) have both returned: item 1 is out of
\* state.items and back in storage, as markSeen made it
C28_Witness ==
    /\ atRest
    /\ ~state.isLoading
    /\ 1 \notin idsOf(state.items)
    /\ idsOf(state.items) = {2}
    /\ \E k \in 1..Len(persisted) :
          /\ persisted[k].id = 1
          /\ persisted[k].lastSeenAt = clock
          /\ persisted[k].seenCount = 9


----------------------------------------------------------------------------
distinctIds(its) ==
    \A i, j \in 1..Len(its) : i # j => its[i].id # its[j].id

\* the state is as rankItems leaves it under the context c
rankedUnder(st, c) ==
    rankItems(st.items, c) = [all |-> st.items, visible |-> st.visibleItems]

\* the step ends an operation with items and visibleItems of one ranking,
\* under the context the operation took: the current one, or the one
\* addToOrbit took before its storage call
endsRanked ==
    \/ rankedUnder(state', currentContext(clock', placeKey'))
    \/ \E s \in Slots : calls[s].kind = "addToOrbit" /\ rankedUnder(state', calls[s].c)

\* C29 as stated: in every store state each visible item has the id of an
\* item of state.items, the ids of state.items are pairwise distinct and the
\* context is set once isLoading is false; and every call of the listeners
\* that ends an operation hands them a state whose visibleItems were ranked
\* from its items.
C29_AsStated ==
    [][ /\ idsOf(state'.visibleItems) \subseteq idsOf(state'.items)
        /\ distinctIds(state'.items)
        /\ ~state'.isLoading => state'.context # NoContext
        /\ (notifications' # notifications /\ ~state'.isLoading)
              => endsRanked
      ]_vars

\* C29 without the distinct ids: the other three parts of the claim.
C29_VisibleAndNotified ==
    [][ /\ idsOf(state'.visibleItems) \subseteq idsOf(state'.items)
        /\ ~state'.isLoading => state'.context # NoContext
        /\ (notifications' # notifications /\ ~state'.isLoading)
              => endsRanked
      ]_vars

\* every call has returned and state.items holds the added item twice
C29_Witness ==
    /\ atRest
    /\ ~state.isLoading
    /\ ~distinctIds(state.items)
    /\ distinctIds(persisted)
    /\ Len(state.items) = Len(persisted) + 1

----------------------------------------------------------------------------
(* The service worker (src/public/sw.js).  A pathname is the sequence of   *)
(* its characters.  A response is its status and its body; the bodies      *)
(* "v1" and "v2" are two versions the network serves of one resource.      *)
(* Each fetch event is a record that steps from the listener ("match")     *)
(* over the cache lookup to the network answer ("fetch") and is "done";    *)
(* the events interleave at these steps, as the handlers do at their       *)
(* awaits.                                                                 *)

\* the fetch events one exploration dispatches
MaxEvents == 3

\* const STATIC_ASSETS (the sound files are left out)
STATIC_ASSETS ==
    { <<"/">>, <<"/", "b", "u", "n", "d", "l", "e", ".", "j", "s">> }

\* new Response('Offline', { status: 503 })
Offline == [status |-> 503, body |-> "Offline"]

\* what fetch(request) can resolve to
NetworkResponses ==
    { [status |-> 200, body |-> "v1"],
      [status |-> 200, body |-> "v2"],
      [status |-> 404, body |-> "Not Found"] }

\* the requests sent to the worker: GETs of every pathname, a POST and a
\* request of an extension's resource
Requests ==
    {[method |-> "GET", protocol |-> "https:", pathname |-> p] : p \in Pathnames}
    \cup {[method |-> "POST", protocol |-> "https:", pathname |-> <<"/">>],
          [method |-> "GET", protocol |-> "chrome-extension:", pathname |-> <<"/">>]}

\* response.ok: the status is in the range 200-299
ok(response) == response.status >= 200 /\ response.status <= 299

\* pathname.endsWith(ext)
endsWith(pathname, ext) ==
    /\ Len(pathname) >= Len(ext)
    /\ SubSeq(pathname, Len(pathname) - Len(ext) + 1, Len(pathname)) = ext

isStaticAsset(pathname) ==
    LET staticExtensions ==
            { <<".", "j", "s">>, <<".", "c", "s", "s">>, <<".", "h", "t", "m", "l">>,
              <<".", "p", "n", "g">>, <<".", "j", "p", "g">>, <<".", "s", "v", "g">>,
              <<".", "m", "p", "3">>, <<".", "w", "a", "v">> }
    IN  IF pathname = <<"/", "m", "a", "n", "i", "f", "e", "s", "t", ".", "j", "s", "o", "n">>
        THEN FALSE
        ELSE (\E ext \in staticExtensions : endsWith(pathname, ext))
             \/ pathname = <<"/">>

\* the install listener: cache.addAll(STATIC_ASSETS) stores the responses of
\* the network, and rejects (the worker is not installed) unless all are ok;
\* skipWaiting and the activate listener put the worker in control
Install ==
    /\ worker = "installing"
    /\ \E fetched \in [STATIC_ASSETS -> {r \in NetworkResponses : ok(r)}] :
          cache' = [p \in Pathnames |->
                        IF p \in STATIC_ASSETS THEN fetched[p] ELSE cache[p]]
    /\ worker' = "activated"
    /\ UNCHANGED <<engineVars, storeVars, surfaceVars, inputVars, timerVars,
                   listenerVars, events, budget>>

\* the fetch listener: it answers GET requests over http(s) only, static
\* assets with cacheFirst and the others with staleWhileRevalidate
FetchEvent ==
    /\ worker = "activated"
    /\ Len(events) < MaxEvents
    /\ \E request \in Requests :
          LET handled == request.method = "GET"
                         /\ request.protocol \in {"http:", "https:"}
              strategy == IF ~handled THEN "none"
                          ELSE IF isStaticAsset(request.pathname) THEN "cacheFirst"
                          ELSE "staleWhileRevalidate"
          IN  events' = Append(events,
                  [request |-> request, strategy |-> strategy,
                   pc |-> IF handled THEN "match" ELSE "done",
                   cached |-> NoResponse, answer |-> NoResponse,
                   fetched |-> FALSE, failed |-> FALSE])
    /\ UNCHANGED <<engineVars, storeVars, surfaceVars, inputVars, timerVars,
                   listenerVars, worker, cache, budget>>

\* caches.match(request) of cacheFirst, cache.match(request) of
\* staleWhileRevalidate: cacheFirst answers with what it finds and fetches
\* only when it finds nothing; staleWhileRevalidate fetches in either case
CacheMatch(e) ==
    /\ events[e].pc = "match"
    /\ LET ev == events[e]
           cached == cache[ev.request.pathname]
           hit == cached # NoResponse
           first == ev.strategy = "cacheFirst"
       IN  events' = [events EXCEPT ![e] =
               [ev EXCEPT !.cached = cached,
                          !.answer = cached,
                          !.fetched = ~(first /\ hit),
                          !.pc = IF first /\ hit THEN "done" ELSE "fetch"]]
    /\ UNCHANGED <<engineVars, storeVars, surfaceVars, inputVars, timerVars,
                   listenerVars, worker, cache, budget>>

\* fetch(request) resolves and the response is put in the cache whether it
\* is ok or not
NetworkRespondsPutsAll(e, response) ==
    /\ events[e].pc = "fetch"
    /\ cache' = [cache EXCEPT ![events[e].request.pathname] = response]
    /\ events' = [events EXCEPT ![e] =
           [@ EXCEPT !.answer = IF @ = NoResponse THEN response ELSE @,
                     !.pc = "done"]]
    /\ UNCHANGED <<engineVars, storeVars, surfaceVars, inputVars, timerVars,
                   listenerVars, worker, budget>>

\* fetch(request) resolves: the response is put in the cache if it is ok,
\* and it is the answer unless the cached response was answered already
NetworkResponds(e, response) ==
    /\ events[e].pc = "fetch"
    /\ cache' = IF ok(response)
                THEN [cache EXCEPT ![events[e].request.pathname] = response]
                ELSE cache
    /\ events' = [events EXCEPT ![e] =
           [@ EXCEPT !.answer = IF @ = NoResponse THEN response ELSE @,
                     !.pc = "done"]]
    /\ UNCHANGED <<engineVars, storeVars, surfaceVars, inputVars, timerVars,
                   listenerVars, worker, budget>>

\* fetch(request) rejects: the catch of cacheFirst answers Offline, that of
\* staleWhileRevalidate yields null and Offline is the answer unless the
\* cached response was answered already
NetworkFails(e) ==
    /\ events[e].pc = "fetch"
    /\ events' = [events EXCEPT ![e] =
           [@ EXCEPT !.answer = IF @ = NoResponse THEN Offline ELSE @,
                     !.failed = TRUE,
                     !.pc = "done"]]
    /\ UNCHANGED <<engineVars, storeVars, surfaceVars, inputVars, timerVars,
                   listenerVars, worker, cache, budget>>

WorkerInit ==
    /\ EngineAtRest
    /\ StoreAtRest
    /\ SideAtRest
    /\ budget = 0

WorkerNext ==
    \/ Install
    \/ FetchEvent
    \/ \E e \in 1..Len(events) :
          \/ CacheMatch(e)
          \/ \E response \in NetworkResponses : NetworkResponds(e, response)
          \/ NetworkFails(e)

SpecWorker == WorkerInit /\ [][WorkerNext]_vars

\* C30: whatever GET requests arrive, the cache holds only ok responses of
\* the network (never a non-ok response, never the Offline answer); a
\* static-asset request that finds its response in the cache is answered
\* with it and no network fetch is made for it; and a request that finds
\* nothing in the cache and whose fetch fails is answered 503 'Offline'.
C30_FetchHandling ==
    /\ \A p \in Pathnames :
          cache[p] # NoResponse => cache[p] \in NetworkResponses /\ ok(cache[p])
    /\ \A e \in 1..Len(events) :
          LET ev == events[e]
              answered == ev.strategy # "none" /\ ev.pc # "match"
          IN  /\ (answered /\ isStaticAsset(ev.request.pathname)
                    /\ ev.cached # NoResponse)
                    => ev.answer = ev.cached /\ ~ev.fetched /\ ev.pc = "done"
              /\ (ev.pc = "done" /\ ev.failed /\ ev.cached = NoResponse)
                    => ev.answer = Offline
              /\ (ev.pc = "done" /\ ev.strategy # "none") => ev.answer # NoResponse

\* a static asset that was not precached has been fetched and cached by one
\* event and answered from the cache, without a fetch, by a later one, and
\* a third event found nothing cached, lost the network and answered Offline
C30_Witness ==
    /\ Len(events) = 3
    /\ \A e \in 1..3 : events[e].pc = "done" /\ events[e].request.method = "GET"
    /\ events[1].strategy = "cacheFirst"
    /\ events[1].request.pathname \notin STATIC_ASSETS
    /\ events[1].fetched /\ ok(events[1].answer)
    /\ events[2].request = events[1].request
    /\ events[2].cached = events[1].answer
    /\ events[2].answer = events[2].cached /\ ~events[2].fetched
    /\ events[3].strategy = "staleWhileRevalidate"
    /\ events[3].cached = NoResponse /\ events[3].failed
    /\ events[3].answer = Offline

====
